---- MODULE Spec2Model ----
(***************************************************************************)
(* Model of the randstat crate (src/src/lib.rs): RandStat, a table of 100  *)
(* status bytes filled by RandStat::new from a list of StatInit entries,   *)
(* and its Iterator::next, which returns the byte of a random cell.        *)
(*                                                                         *)
(* Cell i of the Rust array (0-based) is cells[i + 1] of the sequence.     *)
(***************************************************************************)
EXTENDS Integers, Sequences, FiniteSets, TLC

VARIABLES
    init_vec,   \* the argument given to RandStat::new (<<>> before any call)
    ctor,       \* which constructor has run: "none", "new" or "default"
    rs,         \* what the constructor returned: Unbuilt, Ok(cells) or Err
    index,      \* the cell index computed by the last call of next
    ret         \* what the last call of next returned: NoCall, Some(v), None, Panic

vars == <<init_vec, ctor, rs, index, ret>>

----------------------------------------------------------------------------
(* Bounds of the model *)

\* the longest entry list given to RandStat::new
MaxEntries == 2

\* the width in bits of the random machine word (usize) drawn by next
WordBits == 7

(* Program constants *)

\* cells: [u8; 100]
NumCells == 100

\* the percentages an entry may carry (usize): nothing, one cell, half the
\* table, the whole table, and one more than the table holds
Percentages == {0, 1, 50, NumCells, NumCells + 1}

\* the status bytes an entry may carry (u8): the default 0 and 0xff
Values == {0, 255}

\* StatInit { percentage, value }
StatInit == [percentage : Percentages, value : Values]

RECURSIVE SeqsUpTo(_, _)
SeqsUpTo(S, n) ==
    IF n = 0 THEN {<<>>}
    ELSE LET shorter == SeqsUpTo(S, n - 1)
         IN  shorter \cup {Append(s, x) : s \in {t \in shorter : Len(t) = n - 1}, x \in S}

\* the entry lists a caller may pass
EntryLists == SeqsUpTo(StatInit, MaxEntries)

\* the values of a usize of WordBits bits
Words == 0 .. (2 ^ WordBits - 1)

----------------------------------------------------------------------------
(* Results *)

Unbuilt == [kind |-> "Unbuilt"]
Ok(cells) == [kind |-> "Ok", cells |-> cells]
\* RandStatOverflowError {} : a struct without fields
RandStatOverflowError == [kind |-> "Err"]

NoCall == [tag |-> "NoCall"]
Some(v) == [tag |-> "Some", value |-> v]
None == [tag |-> "None"]
\* an array access out of bounds panics
Panic == [tag |-> "Panic"]

----------------------------------------------------------------------------
(* RandStat::new *)

\* let mut cells = [0; 100];
ZeroCells == [i \in 1 .. NumCells |-> 0]

OverflowCheckOffByOne(idx, len) == idx >= len - 1

\* if index >= cells.len()
OverflowCheck(idx, len) == idx >= len

WriteCellNoAdvance(st, value) ==
    [st EXCEPT !.cells[st.index + 1] = value]

WriteCellPreIncrement(st, value) ==
    [st EXCEPT !.cells[st.index + 2] = value, !.index = @ + 1]

\* cells[index] = init.value; index += 1;
WriteCell(st, value) ==
    [st EXCEPT !.cells[st.index + 1] = value, !.index = @ + 1]

IterationsInclusive(init) == init.percentage + 1

\* for _ in 0..init.percentage : the number of iterations
Iterations(init) == init.percentage

\* the inner loop: n iterations left for the entry init; st is the local
\* state (cells, index) and err says that the function has returned Err
RECURSIVE InnerLoop(_, _, _)
InnerLoop(st, init, n) ==
    IF n = 0 THEN st
    ELSE IF OverflowCheck(st.index, Len(st.cells))
         THEN [st EXCEPT !.err = TRUE]
         ELSE InnerLoop(WriteCell(st, init.value), init, n - 1)

\* the outer loop, from entry k on
RECURSIVE OuterLoop(_, _, _)
OuterLoop(st, iv, k) ==
    IF k > Len(iv) THEN st
    ELSE LET after == InnerLoop(st, iv[k], Iterations(iv[k]))
         IN  IF after.err THEN after ELSE OuterLoop(after, iv, k + 1)

\* the local state of RandStat::new when it returns
NewLocal(iv) == OuterLoop([cells |-> ZeroCells, index |-> 0, err |-> FALSE], iv, 1)

NewLeakPartial(iv) ==
    LET st == NewLocal(iv)
    IN  [kind |-> IF st.err THEN "Err" ELSE "Ok", cells |-> st.cells]

\* pub fn new(init_vec: &[StatInit]) -> Result<Self, RandStatOverflowError>
New(iv) ==
    LET st == NewLocal(iv)
    IN  IF st.err THEN RandStatOverflowError ELSE Ok(st.cells)

\* fn default() -> Self
Default == Ok([i \in 1 .. NumCells |-> 0])

----------------------------------------------------------------------------
(* Iterator::next *)

SlotIndexNoMod(word, len) == word

\* rng.gen::<usize>() % self.cells.len()
SlotIndex(word, len) == word % len

nextConsuming(self, word) ==
    LET idx == SlotIndex(word, Len(self.cells))
    IN  [self  |-> [self EXCEPT !.cells[idx + 1] = 0],
         index |-> idx,
         ret   |-> IF idx < Len(self.cells) THEN Some(self.cells[idx + 1]) ELSE Panic]

nextReturnsIndex(self, word) ==
    LET idx == SlotIndex(word, Len(self.cells))
    IN  [self  |-> self,
         index |-> idx,
         ret   |-> IF idx < Len(self.cells) THEN Some(idx) ELSE Panic]

\* fn next(&mut self) -> Option<u8>, with the word the generator drew
next(self, word) ==
    LET idx == SlotIndex(word, Len(self.cells))
    IN  [self  |-> self,
         index |-> idx,
         ret   |-> IF idx < Len(self.cells) THEN Some(self.cells[idx + 1]) ELSE Panic]

----------------------------------------------------------------------------
(* The state machine *)

Init ==
    /\ init_vec = <<>>
    /\ ctor = "none"
    /\ rs = Unbuilt
    /\ index = 0
    /\ ret = NoCall

\* a caller constructs with RandStat::new(&iv)
CallNew ==
    /\ ctor = "none"
    /\ \E iv \in EntryLists :
          /\ init_vec' = iv
          /\ rs' = New(iv)
    /\ ctor' = "new"
    /\ UNCHANGED <<index, ret>>

\* a caller constructs with Default::default()
CallDefault ==
    /\ ctor = "none"
    /\ rs' = Default
    /\ ctor' = "default"
    /\ UNCHANGED <<init_vec, index, ret>>

\* a caller that holds an instance calls next
CallNext ==
    /\ rs.kind = "Ok"
    /\ ret.tag # "Panic"
    /\ \E word \in Words :
          LET r == next(rs, word)
          IN  /\ rs' = r.self
              /\ index' = r.index
              /\ ret' = r.ret
    /\ UNCHANGED <<init_vec, ctor>>

Next == CallNew \/ CallDefault \/ CallNext

Spec == Init /\ [][Next]_vars

\* construction alone
NextNew == CallNew \/ CallDefault

SpecNew == Init /\ [][NextNew]_vars

----------------------------------------------------------------------------
(* Vocabulary of the properties *)

\* the sum of the percentages of the first k entries of iv
RECURSIVE SumFirst(_, _)
SumFirst(iv, k) == IF k = 0 THEN 0 ELSE SumFirst(iv, k - 1) + iv[k].percentage

SumPct(iv) == SumFirst(iv, Len(iv))

\* the number of cells that hold v
CountOf(cells, v) == Cardinality({i \in 1 .. Len(cells) : cells[i] = v})

CellValues(cells) == {cells[i] : i \in 1 .. Len(cells)}

\* the reorderings of iv
PermutationsOf(iv) ==
    LET n == Len(iv)
        bijections == {f \in [1 .. n -> 1 .. n] : \A a, b \in 1 .. n : f[a] = f[b] => a = b}
    IN  {[i \in 1 .. n |-> iv[f[i]]] : f \in bijections}

InsertAt(iv, pos, e) ==
    [i \in 1 .. Len(iv) + 1 |-> IF i < pos THEN iv[i] ELSE IF i = pos THEN e ELSE iv[i - 1]]

RemoveAt(iv, pos) ==
    [i \in 1 .. Len(iv) - 1 |-> IF i < pos THEN iv[i] ELSE iv[i + 1]]

\* some entry with a percentage of at least 1 carries v
EntryValue(iv, v) == \E k \in 1 .. Len(iv) : iv[k].percentage >= 1 /\ iv[k].value = v

\* the number of words for which next reads cell i
WordCount(self, i) == Cardinality({w \in Words : next(self, w).index = i})

\* the number of words for which next returns Some(v)
WordsReturning(self, v) == Cardinality({w \in Words : next(self, w).ret = Some(v)})

----------------------------------------------------------------------------
(* Properties *)

\* C1: RandStat::new returns Ok, with a table of exactly 100 cells, if and
\* only if the percentages of the entries sum to at most 100, and returns
\* RandStatOverflowError otherwise (100 succeeds, 101 fails).
C1_NewOkIffSumAtMost100 ==
    ctor = "new" =>
        IF SumPct(init_vec) <= NumCells
        THEN rs.kind = "Ok" /\ Len(rs.cells) = NumCells
        ELSE rs = RandStatOverflowError

\* the entries 100 and 1 of tests::can_catch_overflow: a sum of 101 was refused
C1_Witness ==
    /\ ctor = "new"
    /\ Len(init_vec) = 2
    /\ init_vec[1].percentage = NumCells
    /\ init_vec[2].percentage = 1
    /\ rs.kind = "Err"

\* C2: after a successful RandStat::new the table is the sequential layout of
\* the entries: entry k occupies the cells from the sum of the percentages
\* before it up to, and excluding, that sum plus its own percentage, and every
\* cell at or after the total sum holds 0.
C2_SequentialLayout ==
    ctor = "new" /\ rs.kind = "Ok" =>
        /\ \A k \in 1 .. Len(init_vec) :
              \A slot \in SumFirst(init_vec, k - 1) .. SumFirst(init_vec, k) - 1 :
                  rs.cells[slot + 1] = init_vec[k].value
        /\ \A slot \in SumPct(init_vec) .. NumCells - 1 : rs.cells[slot + 1] = 0

\* two entries with cells of their own and unlike values, and cells left over
C2_Witness ==
    /\ ctor = "new"
    /\ rs.kind = "Ok"
    /\ Len(init_vec) = 2
    /\ init_vec[1].percentage >= 1
    /\ init_vec[2].percentage >= 1
    /\ init_vec[1].value # init_vec[2].value
    /\ init_vec[2].value # 0
    /\ SumPct(init_vec) < NumCells

\* C3: every value returned by next on an instance built by RandStat::new is
\* the value of an entry with a percentage of at least 1, or the default 0;
\* when the percentages sum to exactly 100 it is always the value of such an
\* entry.
C3_SampleIsEntryValueOrDefault ==
    ctor = "new" /\ rs.kind = "Ok" /\ ret.tag # "NoCall" =>
        /\ ret.tag = "Some"
        /\ ret.value = 0 \/ EntryValue(init_vec, ret.value)
        /\ SumPct(init_vec) = NumCells => EntryValue(init_vec, ret.value)

\* the single entry {100, 0xff} of tests::can_create_single_value, sampled
C3_Witness ==
    /\ ctor = "new"
    /\ init_vec = <<[percentage |-> NumCells, value |-> 255]>>
    /\ ret = Some(255)

\* C4: Default::default(), RandStat::new of the empty list and RandStat::new
\* of the single entry {100, 0} produce the same table, 100 cells equal to 0,
\* and every sample of any of the three is 0.
C4_DefaultEmptyAndFullZeroAgree ==
    LET one_of_the_three ==
            \/ ctor = "default"
            \/ ctor = "new" /\ init_vec = <<>>
            \/ ctor = "new" /\ init_vec = <<[percentage |-> NumCells, value |-> 0]>>
    IN  one_of_the_three =>
            /\ rs = Ok(ZeroCells)
            /\ ret.tag # "NoCall" => ret = Some(0)

\* the instance built from the single entry {100, 0} has been sampled
C4_Witness ==
    /\ ctor = "new"
    /\ init_vec = <<[percentage |-> NumCells, value |-> 0]>>
    /\ ret = Some(0)

\* C5: next leaves the table unchanged: no step taken once an instance exists
\* changes any of its cells.
C5_NextLeavesTable == [][rs.kind = "Ok" => rs' = rs]_vars

\* next has returned a cell that holds a value other than the default
C5_Witness ==
    /\ rs.kind = "Ok"
    /\ ret = Some(255)
    /\ CountOf(rs.cells, 255) = 50

\* C6: next is total and never signals completion: on every instance, after
\* any earlier calls, it can be called and returns Some(value) read from a
\* cell index in [0, 100), never None and never an access out of range.
C6_NextTotal ==
    /\ rs.kind = "Ok" => ENABLED CallNext
    /\ ret.tag # "NoCall" =>
          /\ ret.tag = "Some"
          /\ index \in 0 .. NumCells - 1
          /\ ret.value = rs.cells[index + 1]

\* next has read the last cell of the table
C6_Witness ==
    /\ ret.tag = "Some"
    /\ index = NumCells - 1

\* C7: the order of the entries does not affect the output distribution:
\* RandStat::new succeeds on a list exactly when it succeeds on each of its
\* reorderings, and then each value occupies the same number of cells.
C7_OrderIrrelevant ==
    ctor = "new" =>
        \A p \in PermutationsOf(init_vec) :
            LET other == New(p)
            IN  /\ other.kind = rs.kind
                /\ rs.kind = "Ok" =>
                      \A v \in CellValues(rs.cells) \cup CellValues(other.cells) :
                          CountOf(rs.cells, v) = CountOf(other.cells, v)

\* two entries with unlike values and unlike, positive percentages were laid out
C7_Witness ==
    /\ ctor = "new"
    /\ rs.kind = "Ok"
    /\ Len(init_vec) = 2
    /\ init_vec[1].value # init_vec[2].value
    /\ init_vec[1].percentage = 1
    /\ init_vec[2].percentage = 50

\* C8: an entry with percentage 0 consumes no cells: inserting one at any
\* position of the list, or removing one, changes neither whether
\* RandStat::new succeeds nor the table it returns.
C8_ZeroEntryNeutral ==
    ctor = "new" =>
        /\ \A pos \in 1 .. Len(init_vec) + 1 : \A v \in Values :
              New(InsertAt(init_vec, pos, [percentage |-> 0, value |-> v])) = rs
        /\ \A pos \in 1 .. Len(init_vec) :
              init_vec[pos].percentage = 0 => New(RemoveAt(init_vec, pos)) = rs

\* a zero entry follows an entry that fills all 100 cells
C8_Witness ==
    /\ ctor = "new"
    /\ Len(init_vec) = 2
    /\ init_vec[1].percentage = NumCells
    /\ init_vec[2].percentage = 0
    /\ init_vec[2].value # init_vec[1].value
    /\ rs.kind = "Ok"

\* C9: a failed construction exposes no partially written table: the error
\* returned carries nothing but its kind, and no instance exists to sample.
C9_ErrCarriesNoTable ==
    rs.kind = "Err" =>
        /\ rs = RandStatOverflowError
        /\ DOMAIN rs = {"kind"}
        /\ ~ ENABLED CallNext

\* the overflow was detected in the middle of the second entry, after the
\* local buffer had been written up to its last cell
C9_Witness ==
    /\ rs.kind = "Err"
    /\ Len(init_vec) = 2
    /\ init_vec[1].percentage = 50
    /\ init_vec[2].percentage = NumCells
    /\ init_vec[2].value = 255
    /\ NewLocal(init_vec).index = NumCells
    /\ NewLocal(init_vec).cells[NumCells] = 255

\* C10: the cell index is uniform over [0, 100): every index is produced by
\* the same number of words, so that a value occupying n cells is returned
\* with probability n/100.
C10_IndexUniform ==
    rs.kind = "Ok" =>
        /\ \A i, j \in 0 .. NumCells - 1 : WordCount(rs, i) = WordCount(rs, j)
        /\ \A v \in CellValues(rs.cells) :
              NumCells * WordsReturning(rs, v) = Cardinality(Words) * CountOf(rs.cells, v)

====
